---- MODULE Spec2Model ----
(***************************************************************************)
(* Model of the two visualisation pipelines of the repository:             *)
(*   - ccan/plot_both.py : combined_plot (gene track + ATAC peaks)         *)
(*   - corr/plot_corr.py : plot_genes (2x3 correlation grid), st_setup and *)
(*     main (the streamlit session with its list of gene selectors)        *)
(* Vertical coordinates are kept in units of 1/10000 so that 0.015 / 2 is   *)
(* an integer.  A Python value that may be None is a sequence of length    *)
(* zero (None) or one (the value).                                         *)
(***************************************************************************)
EXTENDS Integers, Sequences, FiniteSets, TLC

VARIABLES
    \* ---- ccan/plot_both.py ----
    genes,          \* rows of ccan/data/GRCz11.csv
    access,         \* rows of ccan/data/access.csv
    tpc,            \* position inside combined_plot
    option,         \* argument of combined_plot
    gene_data,      \* local of combined_plot
    atac_data,      \* local of combined_plot
    start,          \* local of combined_plot
    end,            \* local of combined_plot
    fig,            \* the plotly figure being built by combined_plot
    terr,           \* exception that left combined_plot ("" when none)
    \* ---- corr/plot_corr.py : plot_genes ----
    cpc,            \* position inside plot_genes
    index,          \* loop counter of the timepoint loop
    expr_rna,       \* local: expression vector of the current timepoint
    expr_atac,      \* local: accessibility vector of the current timepoint
    colors,         \* local: colour vector of the current timepoint
    corr_scores,    \* local list of scores
    rna_max,        \* local running maximum
    atac_max,       \* local running maximum
    cfig,           \* the subplot figure being built by plot_genes
    cerr,           \* exception that left plot_genes ("" when none)
    \* ---- corr/plot_corr.py : st_setup / main ----
    has_state,      \* "selectboxes" in st.session_state
    selectboxes,    \* st.session_state.selectboxes
    widgets,        \* st.session_state[key] of the select boxes drawn last run
    selected_genes, \* return value of st_setup
    charts,         \* figures handed to st.plotly_chart in this run
    spc,            \* position inside main
    adds            \* history: "Add Gene" clicks since the last "Reset"

trackVars == <<genes, access, tpc, option, gene_data, atac_data, start, end, fig, terr>>
corrVars == <<cpc, index, expr_rna, expr_atac, colors, corr_scores, rna_max, atac_max,
              cfig, cerr>>
sessVars == <<has_state, selectboxes, widgets, selected_genes, charts, spc, adds>>
vars == <<trackVars, corrVars, sessVars>>

(***************************************************************************)
(* Bounds of the model.                                                    *)
(***************************************************************************)
MaxExons == 2
MaxPeaks == 2
MaxBoxes == 4

(***************************************************************************)
(* Generic helpers.                                                        *)
(***************************************************************************)
SeqsUpTo(S, n) == UNION {[1..k -> S] : k \in 0..n}

Range(s) == {s[i] : i \in DOMAIN s}

SetMin(S) == CHOOSE x \in S : \A y \in S : x <= y

SetMax(S) == CHOOSE x \in S : \A y \in S : x >= y

\* Python's None and a present value
None == <<>>

Some(x) == <<x>>

\* A Python dict as the sequence of its <<key, value>> items, in insertion order
DictKeys(d) == [i \in DOMAIN d |-> d[i][1]]

DictValues(d) == [i \in DOMAIN d |-> d[i][2]]

DictHas(d, k) == \E i \in DOMAIN d : d[i][1] = k

DictGet(d, k) == d[CHOOSE i \in DOMAIN d : d[i][1] = k][2]

(***************************************************************************)
(* ccan/plot_both.py                                                       *)
(***************************************************************************)
\* static dictionaries of plot_atac
heights == << <<"TDR126", 2000>>, <<"TDR127", 2250>>, <<"TDR128", 2500>>,
              <<"TDR118", 2750>>, <<"TDR125", 3000>>, <<"TDR124", 3250>> >>

timepoints == << <<"TDR126", "10 hours post fertilization">>,
                 <<"TDR127", "12 hours post fertilization">>,
                 <<"TDR128", "14 hours post fertilization">>,
                 <<"TDR118", "16 hours post fertilization">>,
                 <<"TDR125", "19 hours post fertilization">>,
                 <<"TDR124", "24 hours post fertilization">> >>

atac_colors == << <<"TDR126", "#440154">>, <<"TDR127", "#414487">>,
                  <<"TDR128", "#2A788E">>, <<"TDR118", "#22A884">>,
                  <<"TDR125", "#7AD151">>, <<"TDR124", "#FDE725">> >>

\* static dictionaries of plot_legend
legend_timepoints == << <<"TDR126", "10 hours post fertilization">>,
                        <<"TDR127", "12 hours post fertilization">>,
                        <<"TDR128", "14 hours post fertilization">>,
                        <<"TDR118", "16 hours post fertilization">>,
                        <<"TDR125", "19 hours post fertilization">>,
                        <<"TDR124", "24 hours post fertilization">> >>

legend_colors == << <<"TDR126", "#440154">>, <<"TDR127", "#414487">>,
                    <<"TDR128", "#2A788E">>, <<"TDR118", "#22A884">>,
                    <<"TDR125", "#7AD151">>, <<"TDR124", "#FDE725">> >>

\* ---- the input tables -------------------------------------------------
GeneNames == {"slc4a1a", "myf5"}

Strands == {"+", "-"}

\* exon rows: columns gene_name, start, end, strand
ExonSpans == {<<5100, 6000>>, <<100, 5100>>}

ExonRows ==
    {[gene_name |-> "slc4a1a", start |-> sp[1], end |-> sp[2], strand |-> sd] :
        sp \in ExonSpans, sd \in Strands}
    \cup {[gene_name |-> "myf5", start |-> 200, end |-> 300, strand |-> "+"]}

\* peak rows: <<gene_name, sample_id, start, end>> (Python row[0..3])
PeakSpans == {<<4900, 5800>>, <<7000, 10100>>}

PeakSampleIds == {"TDR126", "TDR124", "TDR999"}

PeakRows ==
    {<<"slc4a1a", sid, sp[1], sp[2]>> : sid \in PeakSampleIds, sp \in PeakSpans}
    \cup {<<"myf5", "TDR000", 50, 20000>>}

\* ---- figure object ----------------------------------------------------
NoFig == [data |-> <<>>, shapes |-> <<>>, annotations |-> <<>>,
          xaxis |-> <<>>, yaxis |-> <<>>, layout |-> <<>>]

\* ---- get_data ---------------------------------------------------------
\* mutant: the tables are returned without the filter on gene_name
get_data_unfiltered(opt) == [gene_data |-> genes, atac_data |-> access]

get_data(opt) ==
    [gene_data |-> SelectSeq(genes, LAMBDA r : r.gene_name = opt),
     atac_data |-> SelectSeq(access, LAMBDA r : r[1] = opt)]

\* polars Series.min() / Series.max(): None on an empty column
SeriesMin(col) == IF Len(col) = 0 THEN None ELSE Some(SetMin(Range(col)))

SeriesMax(col) == IF Len(col) = 0 THEN None ELSE Some(SetMax(Range(col)))

GeneStartCol(gd) == [i \in DOMAIN gd |-> gd[i].start]

GeneEndCol(gd) == [i \in DOMAIN gd |-> gd[i].end]

AtacStartCol(ad) == [i \in DOMAIN ad |-> ad[i][3]]

AtacEndCol(ad) == [i \in DOMAIN ad |-> ad[i][4]]

\* Python's builtin min(a, b) / max(a, b): TypeError when an argument is None
PyMin2(a, b) ==
    IF a = None \/ b = None THEN [err |-> "TypeError", val |-> 0]
    ELSE [err |-> "", val |-> IF b[1] < a[1] THEN b[1] ELSE a[1]]

PyMax2(a, b) ==
    IF a = None \/ b = None THEN [err |-> "TypeError", val |-> 0]
    ELSE [err |-> "", val |-> IF b[1] > a[1] THEN b[1] ELSE a[1]]

\* mutant: the peaks are left out of the range
ResolveStartGenesOnly(gd, ad) ==
    PyMin2(SeriesMin(GeneStartCol(gd)), SeriesMin(GeneStartCol(gd)))

ResolveStart(gd, ad) == PyMin2(SeriesMin(GeneStartCol(gd)), SeriesMin(AtacStartCol(ad)))

ResolveEnd(gd, ad) == PyMax2(SeriesMax(GeneEndCol(gd)), SeriesMax(AtacEndCol(ad)))

\* ---- plot_genomic_region ----------------------------------------------
Stride == 5000

RECURSIVE PyRange(_, _, _)
\* list(range(lo, hi, step)) for step > 0
PyRange(lo, hi, step) ==
    IF lo >= hi THEN <<>> ELSE <<lo>> \o PyRange(lo + step, hi, step)

\* mutant: the end of the range is exclusive
ChromosomeTicksExclusive(s, e) == PyRange(s, e, Stride)

ChromosomeTicks(s, e) == PyRange(s, e + 1, Stride)

TickTrace(tick) ==
    [role |-> "tick", x |-> <<tick, tick>>, y |-> <<-75, 75>>,
     text |-> <<tick \div 1000, "kbp">>]

plot_genomic_region(s, e) ==
    LET chromosome_ticks == ChromosomeTicks(s, e)
        line == [role |-> "axis", x |-> <<s, e>>, y |-> <<0, 0>>, text |-> <<>>]
    IN  [NoFig EXCEPT
            !.data = <<line>> \o [i \in DOMAIN chromosome_ticks |->
                                     TickTrace(chromosome_ticks[i])],
            !.xaxis = <<[range |-> <<s - 1, e + 1>>,
                         tickvals |-> chromosome_ticks,
                         ticktext |-> [i \in DOMAIN chromosome_ticks |->
                                          chromosome_ticks[i] \div 1000]]>>]

\* ---- plot_gene --------------------------------------------------------
ExonShape(r) ==
    [role |-> "exon", x0 |-> r.start, y0 |-> 1100, x1 |-> r.end, y1 |-> 900,
     color |-> "dodgerblue"]

ExonTrace(r) ==
    [role |-> "exon", x |-> <<r.start, r.end, r.end, r.start, r.start>>,
     y |-> <<1100, 1100, 900, 900, 1100>>,
     text |-> <<"Start", r.start, "End", r.end>>]

\* mutant: the arrow ignores the strand
ArrowForward(strand, genomic_start, genomic_end) ==
    [x |-> genomic_end, y |-> 700, ax |-> genomic_start, ay |-> 700]

\* the annotation arrow: x is the head, ax the tail
Arrow(strand, genomic_start, genomic_end) ==
    IF strand = "+"
    THEN [x |-> genomic_end, y |-> 700, ax |-> genomic_start, ay |-> 700]
    ELSE [x |-> genomic_start, y |-> 700, ax |-> genomic_end, ay |-> 700]

plot_gene(f, gd, s, e) ==
    LET genomic_start == SeriesMin(GeneStartCol(gd))[1]
        genomic_end == SeriesMax(GeneEndCol(gd))[1]
        line == [role |-> "gene", x |-> <<genomic_start, genomic_end>>,
                 y |-> <<1000, 1000>>, text |-> <<>>]
    IN  [f EXCEPT
            !.data = @ \o <<line>> \o [i \in DOMAIN gd |-> ExonTrace(gd[i])],
            !.shapes = @ \o [i \in DOMAIN gd |-> ExonShape(gd[i])],
            !.annotations = @ \o <<Arrow(gd[1].strand, genomic_start, genomic_end)>>]

\* ---- plot_atac --------------------------------------------------------
PeakShape(row) ==
    [role |-> "peak", x0 |-> row[3], y0 |-> DictGet(heights, row[2]) - 100,
     x1 |-> row[4], y1 |-> DictGet(heights, row[2]) + 100,
     color |-> DictGet(atac_colors, row[2])]

PeakTrace(row) ==
    LET height == DictGet(heights, row[2])
    IN  [role |-> "peak", x |-> <<row[3], row[4], row[4], row[3], row[3]>>,
         y |-> <<height + 100, height + 100, height - 100, height - 100, height + 100>>,
         text |-> <<"Sample", DictGet(timepoints, row[2]), "Start", row[3], "End", row[4]>>]

\* a row's dict lookups succeed
PeakRowKnown(row) ==
    DictHas(heights, row[2]) /\ DictHas(atac_colors, row[2]) /\ DictHas(timepoints, row[2])

RECURSIVE PlotAtacRowsSkipping(_, _, _)
\* mutant: a row with an unknown sample identifier is skipped
PlotAtacRowsSkipping(f, ad, i) ==
    IF i > Len(ad) THEN [fig |-> f, err |-> ""]
    ELSE IF ~DictHas(heights, ad[i][2]) THEN PlotAtacRowsSkipping(f, ad, i + 1)
    ELSE PlotAtacRowsSkipping([f EXCEPT !.shapes = Append(@, PeakShape(ad[i])),
                                        !.data = Append(@, PeakTrace(ad[i]))], ad, i + 1)

RECURSIVE PlotAtacRows(_, _, _)
\* the loop over atac_data.iter_rows(), from row i on; stops at the first KeyError
PlotAtacRows(f, ad, i) ==
    IF i > Len(ad) THEN [fig |-> f, err |-> ""]
    ELSE IF ~PeakRowKnown(ad[i]) THEN [fig |-> f, err |-> "KeyError"]
    ELSE PlotAtacRows([f EXCEPT !.shapes = Append(@, PeakShape(ad[i])),
                                !.data = Append(@, PeakTrace(ad[i]))], ad, i + 1)

plot_atac(f, ad) == PlotAtacRows(f, ad, 1)

\* ---- plot_legend ------------------------------------------------------
LegendTrace(name) == [role |-> "legend", x |-> <<>>, y |-> <<>>, text |-> name]

plot_legend(f) ==
    [f EXCEPT !.data = @ \o <<LegendTrace(<<"Transcription direction">>),
                              LegendTrace(<<"Exon">>)>>
                         \o [i \in DOMAIN legend_colors |->
                                LegendTrace(<<"ATAC peak",
                                    DictGet(legend_timepoints, legend_colors[i][1])>>)]]

\* ---- combined_plot, one action per statement group --------------------
\* line 263
GetData ==
    /\ tpc = "call"
    /\ \E opt \in GeneNames :
        /\ option' = opt
        /\ gene_data' = get_data(opt).gene_data
        /\ atac_data' = get_data(opt).atac_data
    /\ tpc' = "range"
    /\ UNCHANGED <<genes, access, start, end, fig, terr>>
    /\ UNCHANGED <<corrVars, sessVars>>

\* lines 266-267
ResolveRange ==
    /\ tpc = "range"
    /\ LET s == ResolveStart(gene_data, atac_data)
           e == ResolveEnd(gene_data, atac_data)
       IN  IF s.err # ""
           THEN /\ terr' = s.err
                /\ tpc' = "raised"
                /\ UNCHANGED <<start, end>>
           ELSE IF e.err # ""
           THEN /\ terr' = e.err
                /\ tpc' = "raised"
                /\ start' = s.val
                /\ UNCHANGED end
           ELSE /\ start' = s.val
                /\ end' = e.val
                /\ tpc' = "axis"
                /\ UNCHANGED terr
    /\ UNCHANGED <<genes, access, option, gene_data, atac_data, fig>>
    /\ UNCHANGED <<corrVars, sessVars>>

\* line 270
PlotGenomicRegion ==
    /\ tpc = "axis"
    /\ fig' = plot_genomic_region(start, end)
    /\ tpc' = "gene"
    /\ UNCHANGED <<genes, access, option, gene_data, atac_data, start, end, terr>>
    /\ UNCHANGED <<corrVars, sessVars>>

\* line 271
PlotGene ==
    /\ tpc = "gene"
    /\ fig' = plot_gene(fig, gene_data, start, end)
    /\ tpc' = "atac"
    /\ UNCHANGED <<genes, access, option, gene_data, atac_data, start, end, terr>>
    /\ UNCHANGED <<corrVars, sessVars>>

\* line 272
PlotAtac ==
    /\ tpc = "atac"
    /\ LET r == plot_atac(fig, atac_data)
       IN  /\ fig' = r.fig
           /\ terr' = r.err
           /\ tpc' = IF r.err = "" THEN "legend" ELSE "raised"
    /\ UNCHANGED <<genes, access, option, gene_data, atac_data, start, end>>
    /\ UNCHANGED <<corrVars, sessVars>>

\* lines 273-289
PlotLegendAndReturn ==
    /\ tpc = "legend"
    /\ fig' = [plot_legend(fig) EXCEPT
                  !.yaxis = <<[range |-> <<-10000, 10000>>, visible |-> FALSE]>>,
                  !.layout = <<"transparent">>]
    /\ tpc' = "returned"
    /\ UNCHANGED <<genes, access, option, gene_data, atac_data, start, end, terr>>
    /\ UNCHANGED <<corrVars, sessVars>>

(***************************************************************************)
(* corr/plot_corr.py : plot_genes                                          *)
(***************************************************************************)
corr_timepoints == << <<"TDR126", "10 hours post fertilization">>,
                      <<"TDR127", "12 hours post fertilization">>,
                      <<"TDR128", "14 hours post fertilization">>,
                      <<"TDR118", "16 hours post fertilization">>,
                      <<"TDR125", "19 hours post fertilization">>,
                      <<"TDR124", "24 hours post fertilization">> >>

\* preprocess.define_color_dict: cell type -> colour, one colour per cell type
color_dict == << <<"NMPs", "#8dd3c7">>, <<"PSM", "#ffffb3">>, <<"Somites", "#bebada">> >>

\* {v: k for k, v in color_dict.items()}
inv_color_dict == [i \in DOMAIN color_dict |-> <<color_dict[i][2], color_dict[i][1]>>]

\* ---- the content of gene_dict[gene][sample_id] -------------------------
RnaVecs == {<<2, 2, 2>>, <<1, 2, 3>>}

AtacVecs == {<<-1, -1, -1>>, <<6, 4, 3>>, <<1, 2, 1>>}

ColorVecs == {<<"#8dd3c7", "#ffffb3", "#8dd3c7">>, <<"#bebada", "#123456", "#8dd3c7">>}

SampleData == [rna : RnaVecs, atac : AtacVecs, colors : ColorVecs]

\* ---- make_subplots(rows=2, cols=3, subplot_titles=...) -----------------
Cells == (1..2) \X (1..3)

\* the k-th subplot title (k from 0) sits over the k-th cell, row by row
SubplotCell(k) == <<(k \div 3) + 1, (k % 3) + 1>>

NoAxis == [title |-> "", range |-> <<>>]

make_subplots(titles) ==
    [traces |-> <<>>,
     annotations |-> [i \in DOMAIN titles |->
                         [cell |-> SubplotCell(i - 1), label |-> titles[i],
                          corr |-> <<>>, size |-> 0]],
     xaxes |-> [c \in Cells |-> NoAxis],
     yaxes |-> [c \in Cells |-> NoAxis],
     layout |-> <<>>]

\* ---- correlation -------------------------------------------------------
\* np.all(v == v[0])
AllEqualFirst(v) == \A i \in DOMAIN v : v[i] = v[1]

RECURSIVE SumSeq(_)
SumSeq(v) == IF v = <<>> THEN 0 ELSE v[1] + SumSeq(Tail(v))

\* the undefined sentinel np.nan
NaN == [nan |-> TRUE, num |-> 0, den2 |-> 0]

\* scipy.stats.pearsonr: the coefficient num / sqrt(den2), kept exact
pearsonr(x, y) ==
    LET n == Len(x)
        sx == SumSeq(x)
        sy == SumSeq(y)
        sxy == SumSeq([i \in DOMAIN x |-> x[i] * y[i]])
        sxx == SumSeq([i \in DOMAIN x |-> x[i] * x[i]])
        syy == SumSeq([i \in DOMAIN y |-> y[i] * y[i]])
    IN  [nan |-> FALSE, num |-> n * sxy - sx * sy,
         den2 |-> (n * sxx - sx * sx) * (n * syy - sy * sy)]

\* mutant: the sentinel only when both vectors are constant
CorrScoreBothConstant(rna, atac) ==
    IF AllEqualFirst(rna) /\ AllEqualFirst(atac) THEN NaN ELSE pearsonr(rna, atac)

\* lines 125-129
CorrScore(rna, atac) ==
    IF AllEqualFirst(rna) \/ AllEqualFirst(atac) THEN NaN ELSE pearsonr(rna, atac)

\* a * sqrt(d) <= b, for integers a, b and d >= 0
LeqSqrt(a, d, b) ==
    IF a <= 0 /\ b >= 0 THEN TRUE
    ELSE IF a > 0 /\ b < 0 THEN FALSE
    ELSE IF a > 0 THEN a * a * d <= b * b
    ELSE a * a * d >= b * b

\* f"{score:.2f}": "nan", or the score in hundredths: the k with
\* k - 1/2 <= 100 * score < k + 1/2
Format2f(score) ==
    IF score.nan THEN [nan |-> TRUE, hundredths |-> 0]
    ELSE [nan |-> FALSE,
          hundredths |-> CHOOSE k \in -100..100 :
              /\ LeqSqrt(2 * k - 1, score.den2, 200 * score.num)
              /\ ~LeqSqrt(2 * k + 1, score.den2, 200 * score.num)]

\* ---- placement ---------------------------------------------------------
\* mutant: the grid is filled column by column
TraceCellByColumn(idx) == <<(idx % 2) + 1, (idx \div 2) + 1>>

\* line 153
TraceCell(idx) == <<(idx \div 3) + 1, (idx % 3) + 1>>

\* lines 169-170
AxisCell(i) == <<(i \div 3) + 1, (i % 3) + 1>>

\* mutant: the maximum of the last vector replaces the running one
RunningMaxLocal(v, m) == IF SetMax(Range(v)) > 0 THEN SetMax(Range(v)) ELSE m

\* lines 147-150
RunningMax(v, m) == IF SetMax(Range(v)) > m THEN SetMax(Range(v)) ELSE m

\* line 116
InitialMax == <<0, 0>>

\* line 134
ColorsKnown(cs) == \A i \in DOMAIN cs : DictHas(inv_color_dict, cs[i])

TypeColors(cs) == [i \in DOMAIN cs |-> DictGet(inv_color_dict, cs[i])]

\* lines 137-144
Scatter(rna, atac, cs, idx) ==
    [x |-> atac, y |-> rna, marker |-> cs, text |-> TypeColors(cs), cell |-> TraceCell(idx)]

\* mutant: the title takes the score of the next timepoint
UpdateTitleShifted(annotation, i) ==
    [annotation EXCEPT !.label = DictValues(corr_timepoints)[i + 1],
                       !.corr = <<Format2f(corr_scores[((i + 1) % Len(corr_scores)) + 1])>>,
                       !.size = 14]

\* lines 163-165
UpdateTitle(annotation, i) ==
    [annotation EXCEPT !.label = DictValues(corr_timepoints)[i + 1],
                       !.corr = <<Format2f(corr_scores[i + 1])>>,
                       !.size = 14]

RECURSIVE UpdateAxesFrom(_, _, _, _)
\* the loop of lines 168-170 over one axis family, from i on
UpdateAxesFrom(axes, title, hi, i) ==
    IF i >= Len(corr_scores) THEN axes
    ELSE UpdateAxesFrom([axes EXCEPT ![AxisCell(i)] = [title |-> title, range |-> <<0, hi>>]],
                        title, hi, i + 1)

\* ---- plot_genes, one action per loop iteration and per update block ----
\* lines 106-116
PlotGenesEnter ==
    /\ cpc = "call"
    /\ cfig' = make_subplots(DictValues(corr_timepoints))
    /\ corr_scores' = <<>>
    /\ rna_max' = InitialMax[1]
    /\ atac_max' = InitialMax[2]
    /\ index' = 0
    /\ cpc' = "loop"
    /\ UNCHANGED <<expr_rna, expr_atac, colors, cerr>>
    /\ UNCHANGED <<trackVars, sessVars>>

\* lines 117-153, one timepoint; d is gene_dict[gene][sample_id]
LoopBody ==
    /\ cpc = "loop"
    /\ index < Len(DictKeys(corr_timepoints))
    /\ \E d \in SampleData :
        /\ expr_rna' = d.rna
        /\ expr_atac' = d.atac
        /\ colors' = d.colors
        /\ corr_scores' = Append(corr_scores, CorrScore(d.rna, d.atac))
        /\ IF ~ColorsKnown(d.colors)
           THEN /\ cerr' = "KeyError"
                /\ cpc' = "raised"
                /\ UNCHANGED <<rna_max, atac_max, cfig, index>>
           ELSE /\ rna_max' = RunningMax(d.rna, rna_max)
                /\ atac_max' = RunningMax(d.atac, atac_max)
                /\ cfig' = [cfig EXCEPT
                              !.traces = Append(@, Scatter(d.rna, d.atac, d.colors, index))]
                /\ index' = index + 1
                /\ cpc' = IF index + 1 < Len(DictKeys(corr_timepoints))
                          THEN "loop" ELSE "layout"
                /\ UNCHANGED cerr
    /\ UNCHANGED <<trackVars, sessVars>>

\* lines 156-165
UpdateTitles ==
    /\ cpc = "layout"
    /\ cfig' = [cfig EXCEPT
                  !.layout = <<"margin", "showlegend=False">>,
                  !.annotations = [i \in DOMAIN @ |-> UpdateTitle(@[i], i - 1)]]
    /\ cpc' = "axes"
    /\ UNCHANGED <<index, expr_rna, expr_atac, colors, corr_scores, rna_max, atac_max, cerr>>
    /\ UNCHANGED <<trackVars, sessVars>>

\* lines 167-172
UpdateAxesAndReturn ==
    /\ cpc = "axes"
    /\ cfig' = [cfig EXCEPT
                  !.xaxes = UpdateAxesFrom(@, "ATAC", atac_max, 0),
                  !.yaxes = UpdateAxesFrom(@, "RNA", rna_max, 0)]
    /\ cpc' = "returned"
    /\ UNCHANGED <<index, expr_rna, expr_atac, colors, corr_scores, rna_max, atac_max, cerr>>
    /\ UNCHANGED <<trackVars, sessVars>>

(***************************************************************************)
(* corr/plot_corr.py : st_setup and main                                   *)
(***************************************************************************)
\* list(gene_dict.keys())
gene_names == <<"myf5", "slc4a1a", "tbxta">>

\* gene_names.index('slc4a1a'), as a position of the TLA+ sequence
DefaultIndex == CHOOSE i \in DOMAIN gene_names : gene_names[i] = "slc4a1a"

\* lines 46-47
InitSelectboxes == IF has_state THEN selectboxes ELSE <<0>>

\* mutant: the new key repeats the last one
AddGeneRepeatedKey(boxes) == Append(boxes, Len(boxes) - 1)

\* line 54
AddGene(boxes) == Append(boxes, Len(boxes))

\* line 57
ResetGenes(boxes) == <<0>>

\* lines 60-69: the select boxes drawn for `boxes`; a box drawn in the last run
\* keeps its value, a new one shows the default, `chg` is the user's change
DrawBoxes(boxes, chg) ==
    [k \in Range(boxes) |->
        IF k \in DOMAIN chg THEN chg[k]
        ELSE IF k \in DOMAIN widgets THEN widgets[k]
        ELSE gene_names[DefaultIndex]]

\* lines 25-71 for one script run; button is "", "add" or "reset"
StSetup(button, chg) ==
    LET boxes0 == InitSelectboxes
        boxes1 == IF button = "add" THEN AddGene(boxes0) ELSE boxes0
        boxes2 == IF button = "reset" THEN ResetGenes(boxes1) ELSE boxes1
        drawn == DrawBoxes(boxes2, chg)
    IN  /\ has_state' = TRUE
        /\ selectboxes' = boxes2
        /\ widgets' = drawn
        /\ selected_genes' = [i \in DOMAIN boxes2 |-> drawn[boxes2[i]]]
        /\ charts' = <<>>
        /\ spc' = "plotting"

Interactive == spc \in {"idle", "rendered", "aborted"}

\* the page is opened, or rerun with no button pressed
LoadPage ==
    /\ Interactive
    /\ StSetup("", <<>>)
    /\ adds' = IF has_state THEN adds ELSE 0
    /\ UNCHANGED <<trackVars, corrVars>>

ClickAdd ==
    /\ Interactive
    /\ has_state
    /\ Len(selectboxes) < MaxBoxes
    /\ StSetup("add", <<>>)
    /\ adds' = adds + 1
    /\ UNCHANGED <<trackVars, corrVars>>

ClickReset ==
    /\ Interactive
    /\ has_state
    /\ StSetup("reset", <<>>)
    /\ adds' = 0
    /\ UNCHANGED <<trackVars, corrVars>>

\* the user picks gene g in the select box with key k
SelectGene ==
    /\ Interactive
    /\ has_state
    /\ \E k \in DOMAIN widgets, g \in Range(gene_names) :
        /\ widgets[k] # g
        /\ StSetup("", [j \in {k} |-> g])
    /\ UNCHANGED adds
    /\ UNCHANGED <<trackVars, corrVars>>

\* lines 189-192: plot_genes returned a figure for the next gene
PlotNextGene ==
    /\ spc = "plotting"
    /\ Len(charts) < Len(selected_genes)
    /\ charts' = Append(charts, selected_genes[Len(charts) + 1])
    /\ spc' = IF Len(charts) + 1 = Len(selected_genes) THEN "rendered" ELSE "plotting"
    /\ UNCHANGED <<has_state, selectboxes, widgets, selected_genes, adds>>
    /\ UNCHANGED <<trackVars, corrVars>>

\* line 190: plot_genes raised, the script run ends
PlotRaises ==
    /\ spc = "plotting"
    /\ Len(charts) < Len(selected_genes)
    /\ spc' = "aborted"
    /\ UNCHANGED <<has_state, selectboxes, widgets, selected_genes, charts, adds>>
    /\ UNCHANGED <<trackVars, corrVars>>

(***************************************************************************)
(* Specifications, one per pipeline.                                       *)
(***************************************************************************)
InitTrack ==
    /\ genes \in SeqsUpTo(ExonRows, MaxExons)
    /\ access \in SeqsUpTo(PeakRows, MaxPeaks)
    /\ tpc = "call"
    /\ option = ""
    /\ gene_data = <<>>
    /\ atac_data = <<>>
    /\ start = 0
    /\ end = 0
    /\ fig = NoFig
    /\ terr = ""
    /\ cpc = "idle"
    /\ index = 0
    /\ expr_rna = <<>>
    /\ expr_atac = <<>>
    /\ colors = <<>>
    /\ corr_scores = <<>>
    /\ rna_max = 0
    /\ atac_max = 0
    /\ cfig = <<>>
    /\ cerr = ""
    /\ has_state = FALSE
    /\ selectboxes = <<>>
    /\ widgets = <<>>
    /\ selected_genes = <<>>
    /\ charts = <<>>
    /\ spc = "off"
    /\ adds = 0

TrackNext ==
    \/ GetData
    \/ ResolveRange
    \/ PlotGenomicRegion
    \/ PlotGene
    \/ PlotAtac
    \/ PlotLegendAndReturn

SpecTrack == InitTrack /\ [][TrackNext]_vars

InitCorr ==
    /\ genes = <<>>
    /\ access = <<>>
    /\ tpc = "idle"
    /\ option = ""
    /\ gene_data = <<>>
    /\ atac_data = <<>>
    /\ start = 0
    /\ end = 0
    /\ fig = NoFig
    /\ terr = ""
    /\ cpc = "call"
    /\ index = 0
    /\ expr_rna = <<>>
    /\ expr_atac = <<>>
    /\ colors = <<>>
    /\ corr_scores = <<>>
    /\ rna_max = 0
    /\ atac_max = 0
    /\ cfig = <<>>
    /\ cerr = ""
    /\ has_state = FALSE
    /\ selectboxes = <<>>
    /\ widgets = <<>>
    /\ selected_genes = <<>>
    /\ charts = <<>>
    /\ spc = "off"
    /\ adds = 0

CorrNext ==
    \/ PlotGenesEnter
    \/ LoopBody
    \/ UpdateTitles
    \/ UpdateAxesAndReturn

SpecCorr == InitCorr /\ [][CorrNext]_vars

InitSession ==
    /\ genes = <<>>
    /\ access = <<>>
    /\ tpc = "idle"
    /\ option = ""
    /\ gene_data = <<>>
    /\ atac_data = <<>>
    /\ start = 0
    /\ end = 0
    /\ fig = NoFig
    /\ terr = ""
    /\ cpc = "idle"
    /\ index = 0
    /\ expr_rna = <<>>
    /\ expr_atac = <<>>
    /\ colors = <<>>
    /\ corr_scores = <<>>
    /\ rna_max = 0
    /\ atac_max = 0
    /\ cfig = <<>>
    /\ cerr = ""
    /\ has_state = FALSE
    /\ selectboxes = <<>>
    /\ widgets = <<>>
    /\ selected_genes = <<>>
    /\ charts = <<>>
    /\ spc = "idle"
    /\ adds = 0

SessionNext ==
    \/ LoadPage
    \/ ClickAdd
    \/ ClickReset
    \/ SelectGene
    \/ PlotNextGene
    \/ PlotRaises

SpecSession == InitSession /\ [][SessionNext]_vars

(***************************************************************************)
(* Claims about combined_plot (checked under SpecTrack).                   *)
(***************************************************************************)
\* the rows of the two tables that belong to the requested gene
OptExons == {genes[i] : i \in {j \in DOMAIN genes : genes[j].gene_name = option}}

OptPeaks == {access[i] : i \in {j \in DOMAIN access : access[j][1] = option}}

\* combined_plot got past line 263
Loaded == tpc \notin {"idle", "call"}

\* plot_genomic_region has been called (line 270 is done)
AxisDrawn == Loaded /\ tpc # "range" /\ tpc # "axis" /\ terr # "TypeError"

MinStart == SetMin({r.start : r \in OptExons} \cup {r[3] : r \in OptPeaks})

MaxEnd == SetMax({r.end : r \in OptExons} \cup {r[4] : r \in OptPeaks})

\* C1: when the gene has exon rows and peak rows, the display range is
\* [min(min(G.start), min(P.start)), max(max(G.end), max(P.end))] and exactly
\* that range is what the axis/tick layer is drawn for.
C1_DisplayRange ==
    (Loaded /\ tpc # "range" /\ OptExons # {} /\ OptPeaks # {}) =>
        /\ terr # "TypeError"
        /\ start = MinStart
        /\ end = MaxEnd
        /\ AxisDrawn =>
            /\ fig.data[1].role = "axis"
            /\ fig.data[1].x = <<MinStart, MaxEnd>>
            /\ fig.xaxis[1].range = <<MinStart - 1, MaxEnd + 1>>
            /\ fig.xaxis[1].tickvals[1] = MinStart

\* C1 witness: a figure was returned whose start comes from a peak and whose
\* end comes from an exon, the gene having two exon rows.
C1_Witness ==
    /\ tpc = "returned"
    /\ Cardinality(OptExons) = 2
    /\ OptPeaks # {}
    /\ start < SetMin({r.start : r \in OptExons})
    /\ end > SetMax({r[4] : r \in OptPeaks})
    /\ fig.data[1].x = <<start, end>>

\* the tick positions handed to the x axis, and those drawn as tick traces
TickVals == fig.xaxis[1].tickvals

TickTraces == SelectSeq(fig.data, LAMBDA t : t.role = "tick")

\* C2: for a range with end - start >= 0 the tick set is non-empty, every tick
\* t has start <= t <= end and (t - start) mod 5000 = 0, no such position of
\* the range is skipped, at most one tick is produced when end - start < 5000,
\* and the operation does not fail.
C2_Ticks ==
    (AxisDrawn /\ end - start >= 0) =>
        /\ tpc = "gene" => terr = ""
        /\ Len(TickVals) >= 1
        /\ \A i \in DOMAIN TickVals :
            /\ start <= TickVals[i]
            /\ TickVals[i] <= end
            /\ (TickVals[i] - start) % 5000 = 0
        /\ \A k \in 0..((end - start) \div 5000) :
            start + 5000 * k <= end => start + 5000 * k \in Range(TickVals)
        /\ \A i, j \in DOMAIN TickVals : i < j => TickVals[i] < TickVals[j]
        /\ end - start < 5000 => Len(TickVals) <= 1
        /\ Len(TickTraces) = Len(TickVals)
        /\ \A i \in DOMAIN TickVals : TickTraces[i].x = <<TickVals[i], TickVals[i]>>

\* C2 witness: a range of exactly one stride, with a tick on each end.
C2_Witness ==
    /\ tpc = "gene"
    /\ end - start = 5000
    /\ TickVals = <<start, end>>

\* the strand the arrow is drawn for: that of the gene's first exon row
FirstStrand == genes[SetMin({j \in DOMAIN genes : genes[j].gene_name = option})].strand

GeneStart == SetMin({r.start : r \in OptExons})

GeneEnd == SetMax({r.end : r \in OptExons})

\* plot_gene has been called (line 271 is done)
GeneDrawn == AxisDrawn /\ tpc # "gene"

\* C3: exactly one arrow per gene; for strand "+" its tail is the gene start
\* and its head the gene end, for strand "-" its tail is the gene end and its
\* head the gene start, so that the two strands give swapped (tail, head)
\* pairs for the same coordinates.
C3_StrandArrow ==
    GeneDrawn =>
        /\ Len(fig.annotations) = 1
        /\ FirstStrand = "+" =>
            /\ fig.annotations[1].ax = GeneStart
            /\ fig.annotations[1].x = GeneEnd
        /\ FirstStrand = "-" =>
            /\ fig.annotations[1].ax = GeneEnd
            /\ fig.annotations[1].x = GeneStart
        /\ Arrow("+", GeneStart, GeneEnd).ax = Arrow("-", GeneStart, GeneEnd).x
        /\ Arrow("+", GeneStart, GeneEnd).x = Arrow("-", GeneStart, GeneEnd).ax

\* C3 witness: a returned figure of a "-" gene, the arrow pointing from the
\* higher to the lower coordinate.
C3_Witness ==
    /\ tpc = "returned"
    /\ FirstStrand = "-"
    /\ Len(fig.annotations) = 1
    /\ fig.annotations[1].x < fig.annotations[1].ax

\* C7: when the exon table or the peak table has no row for the requested
\* gene, combined_plot fails on the undefined range and returns no figure:
\* no axis, track, peak or legend layer is ever drawn.
C7_GeneNotFound ==
    (Loaded /\ (OptExons = {} \/ OptPeaks = {})) =>
        /\ tpc \in {"range", "raised"}
        /\ tpc = "raised" => terr = "TypeError"
        /\ fig = NoFig

\* C7 witness: the exon table has rows, none of them for the requested
\* gene, the gene has a peak row, and combined_plot has failed.
C7_Witness ==
    /\ tpc = "raised"
    /\ terr = "TypeError"
    /\ genes # <<>>
    /\ OptExons = {}
    /\ OptPeaks # {}
    /\ fig = NoFig

(***************************************************************************)
(* Claims about plot_genes (checked under SpecCorr).                       *)
(***************************************************************************)
NumTimepoints == Cardinality({"TDR126", "TDR127", "TDR128", "TDR118", "TDR125", "TDR124"})

Labels == <<"10 hours post fertilization", "12 hours post fertilization",
            "14 hours post fertilization", "16 hours post fertilization",
            "19 hours post fertilization", "24 hours post fertilization">>

\* the expression / accessibility vector that score k (from 1) was computed
\* from: those of the k-th trace, or the locals when the iteration raised
RnaOf(k) == IF k <= Len(cfig.traces) THEN cfig.traces[k].y ELSE expr_rna

AtacOf(k) == IF k <= Len(cfig.traces) THEN cfig.traces[k].x ELSE expr_atac

Constant(v) == \A i, j \in DOMAIN v : v[i] = v[j]

InPlotGenes == cpc \notin {"idle", "call"}

\* plot_genes is past its timepoint loop
LoopDone == cpc \in {"layout", "axes", "returned"}

\* C4: one score is recorded per timepoint; it is the undefined sentinel, and
\* not the number zero, whenever the expression or the accessibility vector
\* is constant, and a Pearson coefficient only when neither is constant.
C4_UndefinedCorrelation ==
    InPlotGenes =>
        /\ cpc = "loop" => Len(corr_scores) = index
        /\ cpc = "raised" => Len(corr_scores) = index + 1
        /\ LoopDone => Len(corr_scores) = NumTimepoints
        /\ \A k \in DOMAIN corr_scores :
            /\ (Constant(RnaOf(k)) \/ Constant(AtacOf(k))) =>
                /\ corr_scores[k].nan
                /\ corr_scores[k] # [nan |-> FALSE, num |-> 0, den2 |-> corr_scores[k].den2]
            /\ ~corr_scores[k].nan => (~Constant(RnaOf(k)) /\ ~Constant(AtacOf(k)))
            /\ (~Constant(RnaOf(k)) /\ ~Constant(AtacOf(k))) => ~corr_scores[k].nan

\* C4 witness: a returned figure with a timepoint whose expression alone is
\* constant, one whose accessibility alone is constant and one with a
\* Pearson coefficient.
C4_Witness ==
    /\ cpc = "returned"
    /\ Constant(RnaOf(1)) /\ ~Constant(AtacOf(1)) /\ corr_scores[1].nan
    /\ ~Constant(RnaOf(2)) /\ Constant(AtacOf(2)) /\ corr_scores[2].nan
    /\ ~Constant(RnaOf(3)) /\ ~Constant(AtacOf(3)) /\ ~corr_scores[3].nan

\* the largest value over all six timepoints' vectors
GlobalMaxAtac == SetMax(UNION {Range(cfig.traces[k].x) : k \in DOMAIN cfig.traces})

GlobalMaxRna == SetMax(UNION {Range(cfig.traces[k].y) : k \in DOMAIN cfig.traces})

LocalMaxAtac(c) ==
    SetMax(UNION {Range(cfig.traces[k].x) : k \in {j \in DOMAIN cfig.traces :
                                                        cfig.traces[j].cell = c}})

AtLeastZero(m) == IF m > 0 THEN m ELSE 0

C6_GridLayout ==
    InPlotGenes =>
        /\ \A k \in DOMAIN cfig.traces :
            cfig.traces[k].cell = <<((k - 1) \div 3) + 1, ((k - 1) % 3) + 1>>
        /\ LoopDone =>
            /\ Len(cfig.traces) = 6
            /\ \A j, k \in DOMAIN cfig.traces :
                j # k => cfig.traces[j].cell # cfig.traces[k].cell
            /\ {cfig.traces[k].cell : k \in DOMAIN cfig.traces} = (1..2) \X (1..3)
            /\ \A i \in 0..5 : AxisCell(i) = cfig.traces[i + 1].cell
        /\ cpc = "returned" =>
            \A k \in DOMAIN cfig.traces :
                /\ cfig.xaxes[cfig.traces[k].cell].title = "ATAC"
                /\ cfig.yaxes[cfig.traces[k].cell].title = "RNA"

\* C6 witness: a returned figure whose fourth trace opens the second row and
\* whose sixth trace closes it, the traces carrying different data.
C6_Witness ==
    /\ cpc = "returned"
    /\ cfig.traces[1].cell = <<1, 1>>
    /\ cfig.traces[4].cell = <<2, 1>>
    /\ cfig.traces[6].cell = <<2, 3>>
    /\ cfig.traces[1].x # cfig.traces[4].x
    /\ cfig.traces[4].x # cfig.traces[6].x

\* the trace drawn in cell c
TraceAt(c) == cfig.traces[CHOOSE k \in DOMAIN cfig.traces : cfig.traces[k].cell = c]

\* C10: exactly six titles are rewritten; the title over the subplot at row
\* i \div 3 + 1, column i % 3 + 1 carries the label of timepoint i and the
\* two-decimal correlation of the vectors plotted in that subplot, which are
\* those of timepoint i.
C10_Titles ==
    /\ Format2f(pearsonr(<<1, 2, 3>>, <<2, 4, 6>>)) = [nan |-> FALSE, hundredths |-> 100]
    /\ Format2f(pearsonr(<<1, 2, 3>>, <<3, 2, 1>>)) = [nan |-> FALSE, hundredths |-> -100]
    /\ Format2f(pearsonr(<<1, 2, 3>>, <<1, 3, 2>>)) = [nan |-> FALSE, hundredths |-> 50]
    /\ cpc \in {"axes", "returned"} =>
        /\ Len(cfig.annotations) = 6
        /\ \A i \in 0..5 :
            LET a == cfig.annotations[i + 1]
                c == <<(i \div 3) + 1, (i % 3) + 1>>
            IN  /\ a.cell = c
                /\ a.label = Labels[i + 1]
                /\ a.size = 14
                /\ TraceAt(c) = cfig.traces[i + 1]
                /\ a.corr = <<Format2f(CorrScore(TraceAt(c).y, TraceAt(c).x))>>
                /\ a.corr[1].nan <=> (Constant(TraceAt(c).y) \/ Constant(TraceAt(c).x))

\* C10 witness: a returned figure whose first title shows "nan", whose second
\* shows -0.98 and whose last shows 0.00.
C10_Witness ==
    /\ cpc = "returned"
    /\ cfig.annotations[1].corr = <<[nan |-> TRUE, hundredths |-> 0]>>
    /\ cfig.annotations[2].corr = <<[nan |-> FALSE, hundredths |-> -98]>>
    /\ cfig.annotations[6].corr = <<[nan |-> FALSE, hundredths |-> 0]>>
    /\ cfig.traces[2].x = <<6, 4, 3>>
    /\ cfig.traces[6].x = <<1, 2, 1>>

(***************************************************************************)
(* Both renderers, one call of either (for the claim that spans them).     *)
(***************************************************************************)
InitRender == InitTrack \/ InitCorr

RenderNext ==
    \/ GetData
    \/ ResolveRange
    \/ PlotGenomicRegion
    \/ PlotGene
    \/ PlotAtac
    \/ PlotLegendAndReturn
    \/ PlotGenesEnter
    \/ LoopBody
    \/ UpdateTitles
    \/ UpdateAxesAndReturn

SpecRender == InitRender /\ [][RenderNext]_vars

KnownSamples == {"TDR126", "TDR127", "TDR128", "TDR118", "TDR125", "TDR124"}

KnownColors == {color_dict[i][2] : i \in DOMAIN color_dict}

BadPeak == \E r \in OptPeaks : r[2] \notin KnownSamples

BadColor(cs) == \E i \in DOMAIN cs : cs[i] \notin KnownColors

\* C8: a peak row of the gene with a sample identifier outside the six
\* timepoints makes plot_atac, and so combined_plot, fail with an uncaught
\* lookup error and return no figure; a unit colour outside the colour
\* mapping does the same to plot_genes; with every identifier and colour
\* known there is no lookup error.
C8_LookupFailure ==
    /\ (Loaded /\ BadPeak) =>
        /\ tpc \notin {"legend", "returned"}
        /\ (tpc = "raised" /\ OptExons # {}) => terr = "KeyError"
    /\ (Loaded /\ ~BadPeak) => terr # "KeyError"
    /\ terr = "KeyError" => tpc = "raised"
    /\ (InPlotGenes /\ BadColor(colors)) => (cpc = "raised" /\ cerr = "KeyError")
    /\ (InPlotGenes /\ ~BadColor(colors)) => (cpc # "raised" /\ cerr = "")
    /\ InPlotGenes => \A k \in DOMAIN cfig.traces : ~BadColor(cfig.traces[k].marker)

\* C8 witness: the gene's second peak row has an unknown sample identifier;
\* plot_atac drew the first peak, failed on the second, and combined_plot
\* returned nothing.
C8_Witness ==
    /\ tpc = "raised"
    /\ terr = "KeyError"
    /\ Len(atac_data) = 2
    /\ atac_data[1][2] \in KnownSamples
    /\ atac_data[2][2] \notin KnownSamples
    /\ Len(SelectSeq(fig.shapes, LAMBDA sh : sh.role = "peak")) = 1

(***************************************************************************)
(* Claim about the session (checked under SpecSession).                    *)
(***************************************************************************)
IsPrefix(p, q) == Len(p) <= Len(q) /\ \A i \in DOMAIN p : p[i] = q[i]

\* C9: once the page has run, the selector list is non-empty and equals
\* [0, 1, ..., n-1], n being 1 + the Adds since the last Reset (or since the
\* start); its keys are pairwise distinct; a run selects one gene per entry,
\* in list order, and a run that completes charts one figure per entry, in
\* list order.
C9_SelectorList ==
    /\ ~has_state => (selectboxes = <<>> /\ spc = "idle")
    /\ has_state =>
        /\ Len(selectboxes) >= 1
        /\ Len(selectboxes) = 1 + adds
        /\ \A i \in DOMAIN selectboxes : selectboxes[i] = i - 1
        /\ \A i, j \in DOMAIN selectboxes : i # j => selectboxes[i] # selectboxes[j]
        /\ Len(selected_genes) = Len(selectboxes)
        /\ DOMAIN widgets = Range(selectboxes)
        /\ \A i \in DOMAIN selectboxes : selected_genes[i] = widgets[selectboxes[i]]
        /\ IsPrefix(charts, selected_genes)
        /\ spc = "rendered" => charts = selected_genes
        /\ spc = "plotting" => Len(charts) < Len(selected_genes)

\* C9 witness: after two Adds the page is rendered with three select boxes
\* holding three different genes, and three figures in that order.
C9_Witness ==
    /\ spc = "rendered"
    /\ adds = 2
    /\ selectboxes = <<0, 1, 2>>
    /\ Cardinality(Range(selected_genes)) = 3
    /\ charts = selected_genes

====
